---- MODULE Spec2Model ----
(***************************************************************************)
(* Model of the GKE cluster reconciler of src/compute/gke.go.              *)
(*                                                                         *)
(* One GKECluster record (a namespace/name that may be deleted and created *)
(* again under a fresh UID), the record store of the API server, the GKE   *)
(* service behind gke.Client and the connection secret.  One Reconcile     *)
(* call is one action; the outcome of every call it makes to a             *)
(* collaborator (connect, record write, GKE create/get/delete, secret      *)
(* apply) is an input of the action.                                       *)
(***************************************************************************)
EXTENDS FiniteSets, Integers, Sequences, TLC

\* Number of incarnations (UIDs) of the record the model creates.
MaxUID == 2

\* Number of incarnations of the record under the fair specification.
MaxLiveUID == 1

\* src/compute/gke.go:45-47
controllerName == "gke.compute.gcp.conductor.io"
finalizer == <<"finalizer.", controllerName>>
clusterNamePrefix == "gke-"

\* A finalizer token owned by another controller.
foreignFinalizer == <<"finalizer.", "other">>

\* src/compute/gke.go:49-53
errorClusterClient == "Failed to create cluster client"
errorCreatingCluster == "Failed to create new cluster"
errorUpdatingCluster == "Failed to update cluster"
errorDeletingCluster == "Failed to delete cluster"
errorClusterConnectionSecret == "Failed to create/update cluster connection secret"

\* src/compute/gke.go:58-59
result == [Requeue |-> FALSE]
resultRequeue == [Requeue |-> TRUE]

\* corev1alpha1.ReclaimDelete / ReclaimRetain (gke.go:205)
ReclaimDelete == "Delete"
ReclaimRetain == "Retain"

\* gcpcomputev1alpha1.ClusterStateRunning (gke.go:186)
ClusterStateRunning == "RUNNING"
ClusterStateProvisioning == "PROVISIONING"
ClusterStateReconciling == "RECONCILING"
ClusterAbsent == "ABSENT"

VARIABLES rec, clusters, secret, nextUID, last

vars == <<rec, clusters, secret, nextUID, last>>

UIDs == 1..MaxUID

\* The empty string of Status.ClusterName.
NoName == <<>>

\* fmt.Sprintf("%s%s", clusterNamePrefix, instance.UID)   (gke.go:161)
ClusterNameOf(uid) == <<clusterNamePrefix, uid>>

ClusterNames == {ClusterNameOf(u) : u \in UIDs}

----
\* Condition helpers of the record status (corev1alpha1.ConditionedStatus).

Cond(t, reason) == [type |-> t, reason |-> reason]

CondTypes(inst) == {c.type : c \in inst.conds}

UnsetAllConditions(inst) == [inst EXCEPT !.conds = {}]

SetCondition(inst, t, reason) ==
    [inst EXCEPT !.conds = {c \in @ : c.type # t} \cup {Cond(t, reason)}]

SetFailed(inst, reason) == SetCondition(inst, "Failed", reason)

SetCreating(inst) == SetCondition(inst, "Creating", "")

SetReady(inst) == SetCondition(inst, "Ready", "")

\* util.HasFinalizer / AddFinalizer / RemoveFinalizer
HasFinalizer(inst, f) == f \in inst.finalizers

AddFinalizer(inst, f) == [inst EXCEPT !.finalizers = @ \cup {f}]

RemoveFinalizer(inst, f) == [inst EXCEPT !.finalizers = @ \ {f}]

----
\* The record store (client.Client of the manager).

\* A record whose deletion was requested is removed by the API server as
\* soon as its finalizer set is empty.
Persist(inst) ==
    IF inst.deleting /\ inst.finalizers = {}
    THEN [inst EXCEPT !.exists = FALSE]
    ELSE inst

\* The outcome of the next record write of the call: in.u1 for its first
\* write, in.u2 for its second.
WriteOutcome(w, in) == IF w.updates = <<>> THEN in.u1 ELSE in.u2

\* r.Update(ctx, instance): writes the whole object, or fails and writes
\* nothing.  The write of an instance that another writer has changed since
\* it was read fails (compare-and-swap on write).
Update(w, inst, in) ==
    [w EXCEPT !.rec = IF WriteOutcome(w, in) = "ok" THEN Persist(inst) ELSE @,
              !.updates = Append(@, WriteOutcome(w, in)),
              !.feasible = @ /\ (w.stale => WriteOutcome(w, in) # "ok")]

\* Another writer changes the record after the reconciler has read it: it
\* requests the deletion, or it removes its own finalizer.
Interfere(w, race) ==
    [w EXCEPT !.rec = IF race = "delete"
                      THEN Persist([@ EXCEPT !.deleting = TRUE])
                      ELSE IF race = "unfinalize"
                      THEN Persist(RemoveFinalizer(@, foreignFinalizer))
                      ELSE @,
              !.race = race,
              !.stale = race # "none",
              !.feasible = @ /\ (race = "delete" => ~w.rec.deleting)
                             /\ (race = "unfinalize" =>
                                    w.rec.deleting /\ foreignFinalizer \in w.rec.finalizers)]

\* The error r.Update returned for the last write of w.
UpdateErr(w) == w.updates[Len(w.updates)] # "ok"

----
\* The GKE service behind gke.Client.

Call(op, name, out) == [op |-> op, name |-> name, out |-> out]

Exists(w, name) == name \in ClusterNames /\ w.clusters[name] # ClusterAbsent

\* container.Cluster as returned by GetCluster
ClusterOf(w, name) ==
    [Status |-> w.clusters[name],
     Endpoint |-> <<"endpoint", name>>,
     MasterAuth |-> [Username |-> "admin", Password |-> <<"password", name>>,
                     ClusterCaCertificate |-> "ca", ClientCertificate |-> "cert",
                     ClientKey |-> "key"]]

CreateCluster(w, name, badSpec, out) ==
    [w EXCEPT !.calls = Append(@, Call("create", name, out)),
              !.clusters = IF out = "ok"
                           THEN [@ EXCEPT ![name] = ClusterStateProvisioning]
                           ELSE @,
              !.feasible = @ /\ out \in (IF badSpec THEN {"BadRequest", "Other"}
                                         ELSE IF Exists(w, name)
                                         THEN {"AlreadyExists", "Other"}
                                         ELSE {"ok", "Other"})]

GetCluster(w, name, out) ==
    [w EXCEPT !.calls = Append(@, Call("get", name, out)),
              !.observed = IF out = "ok" THEN w.clusters[name] ELSE @,
              !.feasible = @ /\ out \in (IF Exists(w, name) THEN {"ok", "Other"}
                                         ELSE {"NotFound", "Other"})]

DeleteCluster(w, name, out) ==
    [w EXCEPT !.calls = Append(@, Call("delete", name, out)),
              !.clusters = IF out = "ok" /\ name \in ClusterNames
                           THEN [@ EXCEPT ![name] = ClusterAbsent]
                           ELSE @,
              !.feasible = @ /\ out \in (IF Exists(w, name) THEN {"ok", "Other"}
                                         ELSE {"NotFound", "Other"})]

\* gcp.IsAlreadyExists / gcp.IsBadRequest on the error of a call
IsAlreadyExists(out) == out = "AlreadyExists"

IsBadRequest(out) == out = "BadRequest"

\* util.ApplySecret(r.kubeclient, secret): create or update
ApplySecret(w, s, out) ==
    [w EXCEPT !.secret = IF out = "ok" THEN {s} ELSE @,
              !.applied = Append(@, out)]

----
\* The reconciler.

\* What one call of a reconcile function returns, with the world it leaves.
Ret(w, inst, res, err) == [w |-> w, instance |-> inst, result |-> res, err |-> err]

\* fail returning result instead of resultRequeue.
fail_noRequeue(w, inst, reason, in) ==
    LET i == SetFailed(UnsetAllConditions(inst), reason)
        w1 == Update(w, i, in)
    IN  Ret(w1, i, result, UpdateErr(w1))

\* fail writing a zero status instead of clearing the conditions only.
fail_resetsStatus(w, inst, reason, in) ==
    LET i == SetFailed([inst EXCEPT !.conds = {}, !.clusterName = NoName], reason)
        w1 == Update(w, i, in)
    IN  Ret(w1, i, resultRequeue, UpdateErr(w1))

\* fail without the call of UnsetAllConditions.
fail_keepsConditions(w, inst, reason, in) ==
    LET i == SetFailed(inst, reason)
        w1 == Update(w, i, in)
    IN  Ret(w1, i, resultRequeue, UpdateErr(w1))

fail(w, inst, reason, in) ==
    LET i == SetFailed(UnsetAllConditions(inst), reason)
        w1 == Update(w, i, in)
    IN  Ret(w1, i, resultRequeue, UpdateErr(w1))

connectionSecret(inst, cluster) ==
    [owner |-> inst.uid,
     data |-> [endpoint |-> cluster.Endpoint,
               username |-> cluster.MasterAuth.Username,
               password |-> cluster.MasterAuth.Password,
               caCert |-> cluster.MasterAuth.ClusterCaCertificate,
               clientCert |-> cluster.MasterAuth.ClientCertificate,
               clientKey |-> cluster.MasterAuth.ClientKey]]

\* _create returning no error when the write of the BadRequest condition
\* failed.
_create_dropsWriteError(w, inst, in) ==
    LET clusterName == ClusterNameOf(inst.uid)
        w1 == CreateCluster(w, clusterName, inst.badSpec, in.create)
    IN  IF in.create # "ok" /\ ~IsAlreadyExists(in.create)
        THEN IF IsBadRequest(in.create)
             THEN LET i == SetFailed(inst, errorCreatingCluster)
                      w2 == Update(w1, i, in)
                  IN  Ret(w2, i, result, FALSE)
             ELSE fail(w1, inst, errorCreatingCluster, in)
        ELSE LET i == [SetCreating(UnsetAllConditions(inst))
                          EXCEPT !.clusterName = clusterName]
                 w2 == Update(w1, i, in)
             IN  Ret(w2, i, resultRequeue, UpdateErr(w2))

\* _create setting Creating without recording Status.ClusterName.
_create_forgetsName(w, inst, in) ==
    LET clusterName == ClusterNameOf(inst.uid)
        w1 == CreateCluster(w, clusterName, inst.badSpec, in.create)
    IN  IF in.create # "ok" /\ ~IsAlreadyExists(in.create)
        THEN IF IsBadRequest(in.create)
             THEN LET i == SetFailed(inst, errorCreatingCluster)
                      w2 == Update(w1, i, in)
                  IN  Ret(w2, i, result, UpdateErr(w2))
             ELSE fail(w1, inst, errorCreatingCluster, in)
        ELSE LET i == SetCreating(UnsetAllConditions(inst))
                 w2 == Update(w1, i, in)
             IN  Ret(w2, i, resultRequeue, UpdateErr(w2))

\* _create returning result instead of resultRequeue after a create.
_create_noRequeue(w, inst, in) ==
    LET clusterName == ClusterNameOf(inst.uid)
        w1 == CreateCluster(w, clusterName, inst.badSpec, in.create)
    IN  IF in.create # "ok" /\ ~IsAlreadyExists(in.create)
        THEN IF IsBadRequest(in.create)
             THEN LET i == SetFailed(inst, errorCreatingCluster)
                      w2 == Update(w1, i, in)
                  IN  Ret(w2, i, result, UpdateErr(w2))
             ELSE fail(w1, inst, errorCreatingCluster, in)
        ELSE LET i == [SetCreating(UnsetAllConditions(inst))
                          EXCEPT !.clusterName = clusterName]
                 w2 == Update(w1, i, in)
             IN  Ret(w2, i, result, UpdateErr(w2))

\* _create without the IsAlreadyExists exemption.
_create_noAlreadyExists(w, inst, in) ==
    LET clusterName == ClusterNameOf(inst.uid)
        w1 == CreateCluster(w, clusterName, inst.badSpec, in.create)
    IN  IF in.create # "ok"
        THEN IF IsBadRequest(in.create)
             THEN LET i == SetFailed(inst, errorCreatingCluster)
                      w2 == Update(w1, i, in)
                  IN  Ret(w2, i, result, UpdateErr(w2))
             ELSE fail(w1, inst, errorCreatingCluster, in)
        ELSE LET i == [SetCreating(UnsetAllConditions(inst))
                          EXCEPT !.clusterName = clusterName]
                 w2 == Update(w1, i, in)
             IN  Ret(w2, i, resultRequeue, UpdateErr(w2))

\* _create without the IsBadRequest case: every error goes through fail.
_create_noBadRequest(w, inst, in) ==
    LET clusterName == ClusterNameOf(inst.uid)
        w1 == CreateCluster(w, clusterName, inst.badSpec, in.create)
    IN  IF in.create # "ok" /\ ~IsAlreadyExists(in.create)
        THEN fail(w1, inst, errorCreatingCluster, in)
        ELSE LET i == [SetCreating(UnsetAllConditions(inst))
                          EXCEPT !.clusterName = clusterName]
                 w2 == Update(w1, i, in)
             IN  Ret(w2, i, resultRequeue, UpdateErr(w2))

_create(w, inst, in) ==
    LET clusterName == ClusterNameOf(inst.uid)
        w1 == CreateCluster(w, clusterName, inst.badSpec, in.create)
    IN  IF in.create # "ok" /\ ~IsAlreadyExists(in.create)
        THEN IF IsBadRequest(in.create)
             THEN LET i == SetFailed(inst, errorCreatingCluster)
                      w2 == Update(w1, i, in)
                  IN  Ret(w2, i, result, UpdateErr(w2))
             ELSE fail(w1, inst, errorCreatingCluster, in)
        ELSE LET i == [SetCreating(UnsetAllConditions(inst))
                          EXCEPT !.clusterName = clusterName]
                 w2 == Update(w1, i, in)
             IN  Ret(w2, i, resultRequeue, UpdateErr(w2))

\* _sync returning result instead of resultRequeue while the cluster is
\* not running.
_sync_noRequeue(w, inst, in) ==
    LET w1 == GetCluster(w, inst.clusterName, in.get)
    IN  IF in.get # "ok"
        THEN fail(w1, inst, errorUpdatingCluster, in)
        ELSE LET cluster == ClusterOf(w, inst.clusterName)
             IN  IF cluster.Status # ClusterStateRunning
                 THEN Ret(w1, inst, result, FALSE)
                 ELSE LET w2 == ApplySecret(w1, connectionSecret(inst, cluster), in.secret)
                      IN  IF in.secret # "ok"
                          THEN fail(w2, inst, errorClusterConnectionSecret, in)
                          ELSE LET i == SetReady(UnsetAllConditions(inst))
                                   w3 == Update(w2, i, in)
                               IN  Ret(w3, i, result, UpdateErr(w3))

\* _sync returning resultRequeue after it set Ready.
_sync_alwaysRequeues(w, inst, in) ==
    LET w1 == GetCluster(w, inst.clusterName, in.get)
    IN  IF in.get # "ok"
        THEN fail(w1, inst, errorUpdatingCluster, in)
        ELSE LET cluster == ClusterOf(w, inst.clusterName)
             IN  IF cluster.Status # ClusterStateRunning
                 THEN Ret(w1, inst, resultRequeue, FALSE)
                 ELSE LET w2 == ApplySecret(w1, connectionSecret(inst, cluster), in.secret)
                      IN  IF in.secret # "ok"
                          THEN fail(w2, inst, errorClusterConnectionSecret, in)
                          ELSE LET i == SetReady(UnsetAllConditions(inst))
                                   w3 == Update(w2, i, in)
                               IN  Ret(w3, i, resultRequeue, UpdateErr(w3))

\* _sync recording Creating on the record while the cluster is not running.
_sync_marksCreating(w, inst, in) ==
    LET w1 == GetCluster(w, inst.clusterName, in.get)
    IN  IF in.get # "ok"
        THEN fail(w1, inst, errorUpdatingCluster, in)
        ELSE LET cluster == ClusterOf(w, inst.clusterName)
             IN  IF cluster.Status # ClusterStateRunning
                 THEN LET i == SetCreating(UnsetAllConditions(inst))
                          w2 == Update(w1, i, in)
                      IN  Ret(w2, i, resultRequeue, UpdateErr(w2))
                 ELSE LET w2 == ApplySecret(w1, connectionSecret(inst, cluster), in.secret)
                      IN  IF in.secret # "ok"
                          THEN fail(w2, inst, errorClusterConnectionSecret, in)
                          ELSE LET i == SetReady(UnsetAllConditions(inst))
                                   w3 == Update(w2, i, in)
                               IN  Ret(w3, i, result, UpdateErr(w3))

\* _sync without the test of cluster.Status.
_sync_ignoresStatus(w, inst, in) ==
    LET w1 == GetCluster(w, inst.clusterName, in.get)
    IN  IF in.get # "ok"
        THEN fail(w1, inst, errorUpdatingCluster, in)
        ELSE LET cluster == ClusterOf(w, inst.clusterName)
                 w2 == ApplySecret(w1, connectionSecret(inst, cluster), in.secret)
             IN  IF in.secret # "ok"
                 THEN fail(w2, inst, errorClusterConnectionSecret, in)
                 ELSE LET i == SetReady(UnsetAllConditions(inst))
                          w3 == Update(w2, i, in)
                      IN  Ret(w3, i, result, UpdateErr(w3))

_sync(w, inst, in) ==
    LET w1 == GetCluster(w, inst.clusterName, in.get)
    IN  IF in.get # "ok"
        THEN fail(w1, inst, errorUpdatingCluster, in)
        ELSE LET cluster == ClusterOf(w, inst.clusterName)
             IN  IF cluster.Status # ClusterStateRunning
                 THEN Ret(w1, inst, resultRequeue, FALSE)
                 ELSE LET w2 == ApplySecret(w1, connectionSecret(inst, cluster), in.secret)
                      IN  IF in.secret # "ok"
                          THEN fail(w2, inst, errorClusterConnectionSecret, in)
                          ELSE LET i == SetReady(UnsetAllConditions(inst))
                                   w3 == Update(w2, i, in)
                               IN  Ret(w3, i, result, UpdateErr(w3))

\* _delete going on to remove the finalizer when DeleteCluster failed.
_delete_ignoresError(w, inst, in) ==
    LET call == inst.policy = ReclaimDelete
        w1 == IF call THEN DeleteCluster(w, inst.clusterName, in.delete) ELSE w
        i == UnsetAllConditions(RemoveFinalizer(inst, finalizer))
        w2 == Update(w1, i, in)
    IN  Ret(w2, i, result, UpdateErr(w2))

\* _delete without the test of the reclaim policy.
_delete_alwaysCalls(w, inst, in) ==
    LET w1 == DeleteCluster(w, inst.clusterName, in.delete)
    IN  IF in.delete # "ok"
        THEN fail(w1, inst, errorDeletingCluster, in)
        ELSE LET i == UnsetAllConditions(RemoveFinalizer(inst, finalizer))
                 w2 == Update(w1, i, in)
             IN  Ret(w2, i, result, UpdateErr(w2))

_delete(w, inst, in) ==
    LET call == inst.policy = ReclaimDelete
        w1 == IF call THEN DeleteCluster(w, inst.clusterName, in.delete) ELSE w
    IN  IF call /\ in.delete # "ok"
        THEN fail(w1, inst, errorDeletingCluster, in)
        ELSE LET i == UnsetAllConditions(RemoveFinalizer(inst, finalizer))
                 w2 == Update(w1, i, in)
             IN  Ret(w2, i, result, UpdateErr(w2))

\* Reconcile testing DeletionTimestamp only after the create test.
ReconcileCall_createFirst(w, in) ==
    IF in.read = "err"
    THEN Ret([w EXCEPT !.read = "err"], w.rec, result, TRUE)
    ELSE IF ~w.rec.exists
    THEN Ret([w EXCEPT !.read = "NotFound"], w.rec, result, FALSE)
    ELSE
    LET instance == w.rec
        w0 == [Interfere(w, in.race) EXCEPT !.read = "ok", !.connected = in.connect]
    IN  IF in.connect # "ok"
        THEN fail(w0, instance, errorClusterClient, in)
        ELSE LET add == ~HasFinalizer(instance, finalizer)
                 i1 == IF add THEN AddFinalizer(instance, finalizer) ELSE instance
                 w1 == IF add THEN Update(w0, i1, in) ELSE w0
             IN  IF add /\ UpdateErr(w1)
                 THEN Ret(w1, i1, resultRequeue, TRUE)
                 ELSE IF i1.clusterName = NoName
                 THEN _create(w1, i1, in)
                 ELSE IF i1.deleting
                 THEN _delete(w1, i1, in)
                 ELSE _sync(w1, i1, in)

\* Reconcile going on to the create after the write of the finalizer failed.
ReconcileCall_ignoresWriteError(w, in) ==
    IF in.read = "err"
    THEN Ret([w EXCEPT !.read = "err"], w.rec, result, TRUE)
    ELSE IF ~w.rec.exists
    THEN Ret([w EXCEPT !.read = "NotFound"], w.rec, result, FALSE)
    ELSE
    LET instance == w.rec
        w0 == [Interfere(w, in.race) EXCEPT !.read = "ok", !.connected = in.connect]
    IN  IF in.connect # "ok"
        THEN fail(w0, instance, errorClusterClient, in)
        ELSE IF instance.deleting
        THEN _delete(w0, instance, in)
        ELSE LET add == ~HasFinalizer(instance, finalizer)
                 i1 == IF add THEN AddFinalizer(instance, finalizer) ELSE instance
                 w1 == IF add THEN Update(w0, i1, in) ELSE w0
             IN  IF i1.clusterName = NoName
                 THEN _create(w1, i1, in)
                 ELSE _sync(w1, i1, in)

\* Reconciler.Reconcile, from the record read to the returned result.
ReconcileCall(w, in) ==
    IF in.read = "err"
    THEN Ret([w EXCEPT !.read = "err"], w.rec, result, TRUE)
    ELSE IF ~w.rec.exists
    THEN Ret([w EXCEPT !.read = "NotFound"], w.rec, result, FALSE)
    ELSE
    LET instance == w.rec
        w0 == [Interfere(w, in.race) EXCEPT !.read = "ok", !.connected = in.connect]
    IN  IF in.connect # "ok"
        THEN fail(w0, instance, errorClusterClient, in)
        ELSE IF instance.deleting
        THEN _delete(w0, instance, in)
        ELSE LET add == ~HasFinalizer(instance, finalizer)
                 i1 == IF add THEN AddFinalizer(instance, finalizer) ELSE instance
                 w1 == IF add THEN Update(w0, i1, in) ELSE w0
             IN  IF add /\ UpdateErr(w1)
                 THEN Ret(w1, i1, resultRequeue, TRUE)
                 ELSE IF i1.clusterName = NoName
                 THEN _create(w1, i1, in)
                 ELSE _sync(w1, i1, in)

----
\* State machine.

Policies == {ReclaimDelete, ReclaimRetain}

\* The record as an external actor creates it: empty status (no condition,
\* no ClusterName, no State).
NewRecord(uid, policy, badSpec, fins) ==
    [exists |-> TRUE, uid |-> uid, policy |-> policy, badSpec |-> badSpec,
     finalizers |-> fins, deleting |-> FALSE, conds |-> {}, clusterName |-> NoName,
     state |-> ""]

NoRecord == [NewRecord(0, ReclaimRetain, FALSE, {}) EXCEPT !.exists = FALSE]

\* What the most recent Reconcile call did.
NoLast ==
    [kind |-> "none", pre |-> NoRecord, instance |-> NoRecord, post |-> NoRecord,
     result |-> result,
     err |-> FALSE, read |-> "none", connected |-> "none", calls |-> <<>>,
     updates |-> <<>>, applied |-> <<>>, observed |-> "none", race |-> "unread",
     tick |-> 0]

\* The outcomes of the calls a Reconcile makes to its collaborators.
Outcomes ==
    [read |-> {"ok", "err"}, connect |-> {"ok", "err"},
     u1 |-> {"ok", "err"}, u2 |-> {"ok", "err"},
     create |-> {"ok", "AlreadyExists", "BadRequest", "Other"},
     get |-> {"ok", "NotFound", "Other"},
     delete |-> {"ok", "NotFound", "Other"},
     secret |-> {"ok", "err"},
     race |-> {"none", "delete", "unfinalize"}]

Fields == DOMAIN Outcomes

Order ==
    [read |-> 1, connect |-> 2, u1 |-> 3, create |-> 4, get |-> 5, delete |-> 6,
     secret |-> 7, u2 |-> 8, race |-> 9]

AllOk == [f \in Fields |-> IF f = "race" THEN "none" ELSE "ok"]

World ==
    [rec |-> rec, clusters |-> clusters, secret |-> secret, feasible |-> TRUE,
     read |-> "none", connected |-> "none", calls |-> <<>>, updates |-> <<>>,
     applied |-> <<>>, observed |-> "none", race |-> "unread", stale |-> FALSE]

Init ==
    /\ rec = NoRecord
    /\ clusters = [n \in ClusterNames |-> ClusterAbsent]
    /\ secret = {}
    /\ nextUID = 1
    /\ last = NoLast

\* An external actor creates the record (under a fresh UID).
CreateRecord ==
    /\ ~rec.exists
    /\ nextUID <= MaxUID
    /\ \E policy \in Policies, badSpec \in BOOLEAN, fins \in {{}, {foreignFinalizer}} :
          rec' = NewRecord(nextUID, policy, badSpec, fins)
    /\ nextUID' = nextUID + 1
    /\ UNCHANGED <<clusters, secret, last>>

\* An external actor requests the deletion of the record.
RequestDelete ==
    /\ rec.exists
    /\ ~rec.deleting
    /\ rec' = Persist([rec EXCEPT !.deleting = TRUE])
    /\ UNCHANGED <<clusters, secret, nextUID, last>>

\* The owner of the foreign finalizer finishes its cleanup.
RemoveForeignFinalizer ==
    /\ rec.exists
    /\ rec.deleting
    /\ foreignFinalizer \in rec.finalizers
    /\ rec' = Persist(RemoveFinalizer(rec, foreignFinalizer))
    /\ UNCHANGED <<clusters, secret, nextUID, last>>

\* GKE finishes provisioning (or repairing) a cluster.
ClusterProvisionedOf(n) ==
    /\ clusters[n] \in {ClusterStateProvisioning, ClusterStateReconciling}
    /\ clusters' = [clusters EXCEPT ![n] = ClusterStateRunning]
    /\ UNCHANGED <<rec, secret, nextUID, last>>

ClusterProvisioned == \E n \in ClusterNames : ClusterProvisionedOf(n)

\* GKE takes a running cluster out of the RUNNING state for maintenance.
ClusterReconciling ==
    /\ \E n \in ClusterNames :
          /\ clusters[n] = ClusterStateRunning
          /\ clusters' = [clusters EXCEPT ![n] = ClusterStateReconciling]
    /\ UNCHANGED <<rec, secret, nextUID, last>>

\* The outcomes a call consumed.
Used(w) ==
    {"read"} \cup {c.op : c \in {w.calls[k] : k \in DOMAIN w.calls}}
    \cup (IF w.connected # "none" THEN {"connect"} ELSE {})
    \cup (IF w.applied # <<>> THEN {"secret"} ELSE {})
    \cup (IF Len(w.updates) >= 1 THEN {"u1"} ELSE {})
    \cup (IF Len(w.updates) >= 2 THEN {"u2"} ELSE {})
    \cup (IF w.race # "unread" THEN {"race"} ELSE {})

\* The inputs of a Reconcile in the current state: every combination of
\* outcomes of the calls it makes, outcomes it does not consume left at "ok"
\* (so that each run of the call is enumerated once).
RECURSIVE Expand(_, _)
Expand(in, fixed) ==
    LET open == Used(ReconcileCall(World, in).w) \ fixed
    IN  IF open = {}
        THEN {in}
        ELSE LET f == CHOOSE g \in open : \A h \in open : Order[g] <= Order[h]
             IN  UNION {Expand([in EXCEPT ![f] = v], fixed \cup {f}) : v \in Outcomes[f]}

Inputs == Expand(AllOk, {})

\* One Reconcile call with the outcomes in; tick is the parity of the
\* deliveries the dispatcher counts.
ReconcileStep(in, tick) ==
       \E r \in {ReconcileCall(World, in)} :
           /\ r.w.feasible
           /\ rec' = r.w.rec
           /\ clusters' = r.w.clusters
           /\ secret' = r.w.secret
           /\ last' = [kind |-> "reconcile", pre |-> rec, instance |-> r.instance,
                       post |-> r.w.rec, result |-> r.result, err |-> r.err, read |-> r.w.read,
                       connected |-> r.w.connected, calls |-> r.w.calls,
                       updates |-> r.w.updates, applied |-> r.w.applied,
                       observed |-> r.w.observed, race |-> r.w.race,
                       tick |-> tick]
           /\ UNCHANGED nextUID

ReconcileWith(in) == ReconcileStep(in, last.tick)

\* The dispatcher delivers a request for the record.
Reconcile == \E in \in Inputs : ReconcileWith(in)

Next ==
    \/ CreateRecord
    \/ RequestDelete
    \/ RemoveForeignFinalizer
    \/ ClusterProvisioned
    \/ ClusterReconciling
    \/ Reconcile

Spec == Init /\ [][Next]_vars

\* The dispatcher owes the record a Reconcile: none has run yet, the last one
\* returned Requeue or an error, or the record has changed since (a watch
\* event).
Pending ==
    \/ last.kind = "none"
    \/ last.result.Requeue
    \/ last.err
    \/ rec # last.post

LiveCreateRecord == nextUID <= MaxLiveUID /\ CreateRecord

\* A delivery of the dispatcher, counted: a Reconcile that leaves everything
\* as it was is still a step.
LiveReconcileWith(in) == ReconcileStep(in, 1 - last.tick)

LiveReconcile == \E in \in Inputs : LiveReconcileWith(in)

\* The outcomes of a Reconcile in which no collaborator fails for a
\* transient reason and no other writer interferes; what the GKE service
\* answers follows from the clusters it holds.
CleanInputs ==
    {[AllOk EXCEPT !.create = c, !.get = g, !.delete = d] :
        c \in {"ok", "AlreadyExists", "BadRequest"},
        g \in {"ok", "NotFound"},
        d \in {"ok", "NotFound"}}

LiveReconcileClean == \E in \in CleanInputs : LiveReconcileWith(in)

LiveNext ==
    \/ LiveCreateRecord
    \/ RequestDelete
    \/ RemoveForeignFinalizer
    \/ ClusterProvisioned
    \/ ClusterReconciling
    \/ LiveReconcile

\* The dispatcher delivers every request it owes, transient failures do not
\* last for ever, and GKE finishes every cluster it is provisioning.
FairSpec ==
    /\ Init /\ [][LiveNext]_vars
    /\ WF_vars(Pending /\ LiveReconcileClean)
    /\ \A n \in ClusterNames : WF_vars(ClusterProvisionedOf(n))

----
\* Properties.

Reconciled == last.kind = "reconcile" /\ last.read = "ok" /\ last.pre.exists

LastCalls(op) == {c \in {last.calls[k] : k \in DOMAIN last.calls} : c.op = op}

\* Every record write of the last Reconcile succeeded.
WritesOk == \A k \in DOMAIN last.updates : last.updates[k] = "ok"

\* No collaborator of the last Reconcile returned an error.
NoFailure ==
    /\ last.connected = "ok"
    /\ last.race = "none"
    /\ WritesOk
    /\ \A k \in DOMAIN last.calls : last.calls[k].out = "ok"
    /\ \A k \in DOMAIN last.applied : last.applied[k] = "ok"

Usable(status) == status = ClusterStateRunning

\* The last Reconcile read the cluster and saw it in a state that is not
\* usable.
ObservedNotUsable == last.observed # "none" /\ ~Usable(last.observed)

\* C1: with no failing collaborator and no deletion request, a reconcile of
\* a record with empty status records the externalName derived from the UID,
\* sets Creating and requests a retry; a reconcile that observes a
\* not-yet-usable cluster requests a retry and leaves the record as it was;
\* a reconcile that observes the usable cluster sets Ready, publishes the
\* connection secret and requests no retry.
C1_CreateWaitReady ==
    (Reconciled /\ ~last.pre.deleting /\ NoFailure) =>
       /\ (last.pre.clusterName = NoName /\ last.pre.conds = {}) =>
             /\ last.post.clusterName = ClusterNameOf(last.pre.uid)
             /\ CondTypes(last.post) = {"Creating"}
             /\ last.result.Requeue
             /\ ~last.err
       /\ (last.pre.clusterName # NoName /\ ObservedNotUsable) =>
             /\ last.result.Requeue
             /\ ~last.err
             /\ last.post = last.pre
             /\ last.updates = <<>>
       /\ (last.pre.clusterName # NoName /\ Usable(last.observed)) =>
             /\ CondTypes(last.post) = {"Ready"}
             /\ last.post.clusterName = last.pre.clusterName
             /\ last.applied = <<"ok">>
             /\ secret = {connectionSecret(last.pre,
                             [Status |-> ClusterStateRunning,
                              Endpoint |-> <<"endpoint", last.pre.clusterName>>,
                              MasterAuth |-> [Username |-> "admin",
                                  Password |-> <<"password", last.pre.clusterName>>,
                                  ClusterCaCertificate |-> "ca",
                                  ClientCertificate |-> "cert",
                                  ClientKey |-> "key"]])}
             /\ ~last.result.Requeue
             /\ ~last.err

\* The reconcile that found the cluster running has just made a Creating
\* record Ready.
C1_Witness ==
    /\ Reconciled /\ NoFailure
    /\ CondTypes(last.pre) = {"Creating"}
    /\ Usable(last.observed)
    /\ CondTypes(rec) = {"Ready"}
    /\ secret # {}
    /\ ~last.result.Requeue

\* C2: the engine's finalizer leaves a record, and a record with reclaim
\* policy Delete leaves the store, only while no cluster created for the
\* record exists (or, for the finalizer, the policy is Retain).
C2_NoLeak ==
    /\ [][(rec.exists /\ rec'.uid = rec.uid /\ finalizer \in rec.finalizers
             /\ finalizer \notin rec'.finalizers)
          => (rec.policy = ReclaimRetain
                \/ clusters'[ClusterNameOf(rec.uid)] = ClusterAbsent)]_vars
    /\ []((~rec.exists /\ rec.uid \in UIDs /\ rec.policy = ReclaimDelete)
          => clusters[ClusterNameOf(rec.uid)] = ClusterAbsent)

\* A record with policy Delete whose cluster existed has reached the
\* terminal state through a successful DeleteCluster.
C2_Witness ==
    /\ Reconciled
    /\ ~rec.exists
    /\ last.pre.policy = ReclaimDelete
    /\ \E c \in LastCalls("delete") : c.out = "ok" /\ c.name = ClusterNameOf(rec.uid)

\* C3: the persisted record never holds more than one of the conditions
\* Creating, Ready and Failed.
C3_OneCondition ==
    /\ Cardinality(rec.conds) <= 1
    /\ Cardinality(last.post.conds) <= 1
    /\ CondTypes(rec) \subseteq {"Creating", "Ready", "Failed"}

\* fail has just replaced the Creating condition by Failed.
C3_Witness ==
    /\ Reconciled
    /\ CondTypes(last.pre) = {"Creating"}
    /\ CondTypes(last.post) = {"Failed"}
    /\ rec = last.post

\* C4: a reconcile of a record with externalName set and no deletion request
\* that observes a cluster that is not yet usable does not set the Ready
\* condition and requests a retry.
C4_NotUsableWaits ==
    (Reconciled /\ last.pre.clusterName # NoName /\ ~last.pre.deleting
       /\ ObservedNotUsable) =>
       /\ "Ready" \in CondTypes(last.instance) => "Ready" \in CondTypes(last.pre)
       /\ "Ready" \in CondTypes(last.post) => "Ready" \in CondTypes(last.pre)
       /\ last.result = resultRequeue
       /\ ~last.err

\* A reconcile has just polled the cluster of a Creating record and found it
\* still in PROVISIONING.
C4_Witness ==
    /\ Reconciled
    /\ CondTypes(last.pre) = {"Creating"}
    /\ last.pre.clusterName # NoName
    /\ last.observed = ClusterStateProvisioning
    /\ CondTypes(rec) = {"Creating"}
    /\ last.result.Requeue

\* A deletion request on a record with reclaim policy Retain that still
\* holds the engine's finalizer.
RetainDeletion ==
    /\ Reconciled
    /\ last.pre.deleting
    /\ last.pre.policy = ReclaimRetain
    /\ finalizer \in last.pre.finalizers

\* C5 as stated: a reconcile of a record with reclaim policy Retain and a
\* deletion request removes the engine's finalizer without calling the
\* external delete, whatever the outcome of connecting to the client.
C5_Original ==
    (RetainDeletion /\ WritesOk) =>
       /\ LastCalls("delete") = {}
       /\ finalizer \notin last.post.finalizers

\* C5 amended: such a reconcile never calls the external delete; it removes
\* the finalizer when the connect and the record write succeed, and when the
\* connect fails it keeps the finalizer, sets Failed and requests a retry.
C5_RetainSkipsDelete ==
    RetainDeletion =>
       /\ last.calls = <<>>
       /\ (last.connected = "ok" /\ WritesOk) =>
             /\ finalizer \notin last.post.finalizers
             /\ last.result = result
       /\ (last.connected # "ok") =>
             /\ finalizer \in last.post.finalizers
             /\ last.result = resultRequeue
             /\ (WritesOk => CondTypes(last.post) = {"Failed"})

\* The finalizer has just been removed from a Retain record whose cluster
\* exists, with no call to the GKE service.
C5_Witness ==
    /\ RetainDeletion
    /\ last.connected = "ok"
    /\ finalizer \notin rec.finalizers
    /\ rec.uid = last.pre.uid
    /\ last.calls = <<>>
    /\ last.pre.clusterName # NoName
    /\ clusters[last.pre.clusterName] # ClusterAbsent

\* C6 as stated: when DeleteCluster returns NotFound for a record with a
\* deletion request and reclaim policy Delete, the reconcile still removes
\* the engine's finalizer.
C6_DeleteNotFoundRemovesFinalizer ==
    (Reconciled /\ last.pre.deleting /\ last.pre.policy = ReclaimDelete
       /\ finalizer \in last.pre.finalizers /\ WritesOk
       /\ last.pre.clusterName # NoName
       /\ (\E c \in LastCalls("delete") : c.out = "NotFound")) =>
       finalizer \notin last.post.finalizers

\* The record after a reconcile that called CreateCluster and wrote the
\* record: the instance it built when the write succeeded, the record as it
\* was (with the finalizer, if this reconcile added it) when it failed.
CreateWritten ==
    IF last.updates[Len(last.updates)] = "ok"
    THEN last.post = last.instance
    ELSE /\ last.post.conds = last.pre.conds
         /\ last.post.clusterName = last.pre.clusterName

\* C7: a reconcile issues at most one CreateCluster call, only for a record
\* with empty externalName; when the call returns AlreadyExists the
\* reconcile goes on as after a successful create: the instance it writes
\* has the derived externalName and the Creating condition alone, it
\* requests a retry, and no Failed condition is put on the record.
C7_AlreadyExistsAbsorbed ==
    Reconciled =>
       /\ Cardinality({k \in DOMAIN last.calls : last.calls[k].op = "create"}) <= 1
       /\ LastCalls("create") # {} => last.pre.clusterName = NoName
       /\ \A c \in LastCalls("create") :
             c.out = "AlreadyExists" =>
                /\ c.name = ClusterNameOf(last.pre.uid)
                /\ last.instance.clusterName = ClusterNameOf(last.pre.uid)
                /\ CondTypes(last.instance) = {"Creating"}
                /\ last.result = resultRequeue
                /\ CreateWritten
                /\ "Failed" \in CondTypes(last.post) => "Failed" \in CondTypes(last.pre)

\* A create repeated for a record whose first create was not recorded has
\* been answered AlreadyExists, and the record is now Creating.
C7_Witness ==
    /\ Reconciled
    /\ \E c \in LastCalls("create") : c.out = "AlreadyExists"
    /\ rec.clusterName = ClusterNameOf(rec.uid)
    /\ CondTypes(rec) = {"Creating"}
    /\ rec = last.post

\* C8: when CreateCluster returns BadRequest the reconcile sets the Failed
\* condition (alone) on the instance and writes it, leaves externalName
\* empty and returns a result that requests no retry.
C8_BadRequestNoRetry ==
    (Reconciled /\ \E c \in LastCalls("create") : c.out = "BadRequest") =>
       /\ CondTypes(last.instance) = {"Failed"}
       /\ last.instance.conds = {Cond("Failed", errorCreatingCluster)}
       /\ last.instance.clusterName = NoName
       /\ last.post.clusterName = NoName
       /\ last.result = result
       /\ CreateWritten

\* A BadRequest has just been recorded as Failed on a record that an earlier
\* reconcile had already marked Failed for another reason.
C8_Witness ==
    /\ Reconciled
    /\ \E c \in LastCalls("create") : c.out = "BadRequest"
    /\ last.pre.conds = {Cond("Failed", errorClusterClient)}
    /\ rec.conds = {Cond("Failed", errorCreatingCluster)}
    /\ rec.clusterName = NoName
    /\ ~last.result.Requeue

\* C9: once the persisted externalName of a record is non-empty, no step
\* changes or clears it.
C9_ExternalNameSetOnce ==
    [][(rec.clusterName # NoName /\ rec'.uid = rec.uid)
       => rec'.clusterName = rec.clusterName]_vars

\* A record that had its externalName has just gone through fail (the
\* cluster read failed) and kept the name.
C9_Witness ==
    /\ Reconciled
    /\ last.pre.clusterName # NoName
    /\ last.pre.uid = rec.uid
    /\ \E c \in LastCalls("get") : c.out # "ok"
    /\ CondTypes(rec) = {"Failed"}
    /\ rec.clusterName = last.pre.clusterName

\* C10 as stated: no reconcile calls GetCluster or DeleteCluster with an
\* empty externalName.
C10_NameBeforeGetDelete ==
    \A k \in DOMAIN last.calls :
       last.calls[k].op \in {"get", "delete"} => last.calls[k].name # NoName

\* The last Reconcile deleted the cluster of a record with reclaim policy
\* Delete that held the engine's finalizer.
DeleteSucceeded ==
    /\ Reconciled
    /\ last.pre.deleting
    /\ last.pre.policy = ReclaimDelete
    /\ finalizer \in last.pre.finalizers
    /\ \E c \in LastCalls("delete") : c.out = "ok"

FinalizerGone == ~rec.exists \/ finalizer \notin rec.finalizers

\* C11 as stated: under fair delivery of the requested reconciles, once the
\* external delete of a record with a deletion request and reclaim policy
\* Delete has succeeded, the engine's finalizer is eventually removed.
C11_DeleteLeadsToFinalizerRemoval == [](DeleteSucceeded => <>FinalizerGone)

\* C12 as stated: after a reconcile that read the cluster (and wrote the
\* record, when it had something to write), the persisted status reports the
\* state the read returned, and the externalName derived from the UID.
C12_StateReported ==
    (Reconciled /\ last.observed # "none" /\ WritesOk) =>
       /\ last.post.state = last.observed
       /\ last.post.clusterName = ClusterNameOf(last.pre.uid)

\* A connect, GetCluster, DeleteCluster or ApplySecret error, or a
\* CreateCluster error other than AlreadyExists and BadRequest, in the last
\* Reconcile.
FailedCall ==
    /\ Reconciled
    /\ \/ last.connected = "err"
       \/ \E c \in LastCalls("get") \cup LastCalls("delete") : c.out # "ok"
       \/ \E c \in LastCalls("create") : c.out = "Other"
       \/ \E k \in DOMAIN last.applied : last.applied[k] # "ok"

\* C13 as stated: after every such failure the persisted record holds the
\* Failed condition alone and the reconcile returned a retry request.
C13_Original ==
    FailedCall => (CondTypes(last.post) = {"Failed"} /\ last.result.Requeue)

\* C13 amended: every such failure makes the reconcile put the Failed
\* condition alone on the instance, write it once and return resultRequeue;
\* the condition is on the persisted record when that write succeeded, and
\* when it failed the conditions of the record are as before and the
\* reconcile returns the write error with the retry request.
C13_FailureRecorded ==
    FailedCall =>
       /\ CondTypes(last.instance) = {"Failed"}
       /\ Cardinality(last.instance.conds) = 1
       /\ last.result = resultRequeue
       /\ last.updates # <<>>
       /\ IF last.updates[Len(last.updates)] = "ok"
          THEN last.post = last.instance /\ ~last.err
          ELSE last.post.conds = last.pre.conds /\ last.err

\* A failed read of the cluster has just replaced Ready by Failed on the
\* persisted record.
C13_Witness ==
    /\ FailedCall
    /\ CondTypes(last.pre) = {"Ready"}
    /\ rec.conds = {Cond("Failed", errorUpdatingCluster)}
    /\ last.result.Requeue

\* C14: a reconcile of a record whose deletion is requested issues neither
\* CreateCluster nor GetCluster, does not add the engine's finalizer and sets
\* neither Creating nor Ready.
C14_DeletionFirst ==
    (Reconciled /\ last.pre.deleting) =>
       /\ LastCalls("create") = {}
       /\ LastCalls("get") = {}
       /\ last.applied = <<>>
       /\ finalizer \in last.instance.finalizers => finalizer \in last.pre.finalizers
       /\ finalizer \in last.post.finalizers => finalizer \in last.pre.finalizers
       /\ CondTypes(last.instance) \subseteq {"Failed"}
       /\ last.post.conds # last.pre.conds => CondTypes(last.post) \subseteq {"Failed"}

\* A record with its deletion requested before any create was recorded has
\* been reconciled through the delete branch and is gone.
C14_Witness ==
    /\ Reconciled
    /\ last.pre.deleting
    /\ last.pre.clusterName = NoName
    /\ finalizer \notin last.pre.finalizers
    /\ last.connected = "ok"
    /\ ~rec.exists

\* C15: CreateCluster is called only for a record that holds the engine's
\* finalizer in the store; when the write that adds the finalizer fails the
\* reconcile returns resultRequeue and the error, with no call to GKE.
C15_FinalizerBeforeCreate ==
    Reconciled =>
       /\ LastCalls("create") # {} =>
             /\ finalizer \in last.post.finalizers
             /\ finalizer \in last.pre.finalizers \/ last.updates[1] = "ok"
       /\ (last.connected = "ok" /\ ~last.pre.deleting
             /\ finalizer \notin last.pre.finalizers /\ last.updates[1] # "ok") =>
             /\ last.calls = <<>>
             /\ last.err
             /\ last.result = resultRequeue
             /\ finalizer \notin last.post.finalizers
             /\ Len(last.updates) = 1

\* The write of the finalizer has just failed, and nothing was created.
C15_Witness ==
    /\ Reconciled
    /\ last.connected = "ok" /\ ~last.pre.deleting
    /\ finalizer \notin last.pre.finalizers
    /\ last.updates = <<"err">>
    /\ last.calls = <<>>
    /\ last.race = "none"
    /\ clusters[ClusterNameOf(last.pre.uid)] = ClusterAbsent

\* C16: a sync that observes a cluster that is not yet usable writes
\* nothing: record (conditions, externalName, finalizers) and connection
\* secret are as before the reconcile.
C16_WaitChangesNothing ==
    /\ []((Reconciled /\ ObservedNotUsable /\ last.race = "none") =>
            /\ last.updates = <<>>
            /\ last.applied = <<>>
            /\ last.instance = last.pre
            /\ last.post = last.pre)
    /\ [][(last' # last /\ last'.observed \notin {"none", ClusterStateRunning}) =>
            /\ secret' = secret
            /\ last'.race = "none" => rec' = rec]_vars

\* A poll of a cluster under maintenance has just left the Ready condition
\* of an earlier reconcile in place.
C16_Witness ==
    /\ Reconciled
    /\ last.observed = ClusterStateReconciling
    /\ CondTypes(last.pre) = {"Ready"}
    /\ rec = last.pre
    /\ secret # {}

\* The last Reconcile met a Ready record with no deletion request, every
\* collaborator answered without error and the cluster was observed usable.
SteadyReconcile ==
    /\ Reconciled
    /\ NoFailure
    /\ CondTypes(last.pre) = {"Ready"}
    /\ ~last.pre.deleting
    /\ Usable(last.observed)

\* C17: a reconcile of a Ready record with no deletion request whose
\* cluster is still observed usable leaves record, connection secret and
\* clusters as they were, calls neither CreateCluster nor DeleteCluster and
\* requests no retry.
C17_SteadyStateIdempotent ==
    /\ [](SteadyReconcile =>
            /\ last.post = last.pre
            /\ LastCalls("create") = {}
            /\ LastCalls("delete") = {}
            /\ last.result = result
            /\ ~last.err)
    /\ [][(last' # last /\ SteadyReconcile') =>
            /\ rec' = rec
            /\ secret' = secret
            /\ clusters' = clusters]_vars

\* A second reconcile of a Ready record has run, its secret published.
C17_Witness ==
    /\ SteadyReconcile
    /\ last.applied = <<"ok">>
    /\ last.updates = <<"ok">>
    /\ rec = last.pre
    /\ secret = {connectionSecret(rec, [Status |-> ClusterStateRunning,
                    Endpoint |-> <<"endpoint", rec.clusterName>>,
                    MasterAuth |-> [Username |-> "admin",
                                    Password |-> <<"password", rec.clusterName>>,
                                    ClusterCaCertificate |-> "ca",
                                    ClientCertificate |-> "cert",
                                    ClientKey |-> "key"]])}

\* The record as the other writer of the last Reconcile left it.
AfterRace ==
    IF last.race = "delete" THEN Persist([last.pre EXCEPT !.deleting = TRUE])
    ELSE IF last.race = "unfinalize" THEN Persist(RemoveFinalizer(last.pre, foreignFinalizer))
    ELSE last.pre

\* Another writer changed the record between the read and the writes of
\* the last Reconcile.
Raced == Reconciled /\ last.race \in {"delete", "unfinalize"}

C20_StatusNeedsName ==
    /\ [](/\ (rec.exists /\ CondTypes(rec) \cap {"Creating", "Ready"} # {}) =>
                rec.clusterName # NoName
          /\ last.applied # <<>> =>
                /\ Usable(last.observed)
                /\ \E c \in LastCalls("get") : c.out = "ok")
    /\ [][secret' # secret =>
            /\ Usable(last'.observed)
            /\ last'.applied = <<"ok">>]_vars

\* The secret of a Ready record with its ClusterName is published.
C20_Witness ==
    /\ rec.exists
    /\ CondTypes(rec) = {"Ready"}
    /\ rec.clusterName = ClusterNameOf(rec.uid)
    /\ last.applied = <<"ok">>
    /\ secret # {}

\* The last Reconcile (if any) met no transient error and no other writer:
\* the read, the connect, every write and the secret succeeded, and GKE
\* answered every call with success or AlreadyExists.
TransientFree ==
    last.kind = "reconcile" =>
       /\ last.read = "ok"
       /\ last.connected = "ok"
       /\ last.race = "none"
       /\ WritesOk
       /\ \A k \in DOMAIN last.calls : last.calls[k].out \in {"ok", "AlreadyExists"}
       /\ \A k \in DOMAIN last.applied : last.applied[k] = "ok"

\* A record with a valid configuration and no deletion request, reconciled
\* without transient errors, whose cluster is not taken out of service.
Calm ==
    /\ rec.exists
    /\ ~rec.deleting
    /\ ~rec.badSpec
    /\ TransientFree
    /\ clusters[ClusterNameOf(rec.uid)] # ClusterStateReconciling

Converged ==
    /\ CondTypes(rec) = {"Ready"}
    /\ Cardinality(rec.conds) = 1
    /\ ~last.result.Requeue
    /\ ~last.err

\* C19: under fair delivery of the requested reconciles, when from some
\* point on the record has a valid configuration and no deletion request,
\* no transient error occurs and the cluster is not taken out of the usable
\* state, then from some point on the record holds the Ready condition alone
\* and the last reconcile requested no retry.
C19_Converges == (<>[]Calm) => (<>[]Converged)

\* A record that an earlier reconcile had marked Failed is Ready, and no
\* retry is owed.
C19_Witness ==
    /\ Reconciled
    /\ Calm
    /\ CondTypes(last.pre) = {"Failed"}
    /\ Converged
    /\ ~Pending

====
